---- MODULE Spec2Model ----
(***************************************************************************)
(* Verification model of the verisnap backend core:                        *)
(*   - security/rate_limiting.py : RateLimiter (sliding window, IP ban)    *)
(*                                 ScrapeRateLimiter (per-site counter)    *)
(*   - api/routes.py             : start_scraping, run_scraping_background *)
(*   - scraper/orchestrator.py   : run_scraping_session, BaseScraper       *)
(*   - database/operations.py    : ScrapingRepository                      *)
(*                                                                         *)
(* Time is counted in ticks of TickSeconds seconds; time.time() and        *)
(* datetime.now() read the same clock `now`.  The window sizes and the ban *)
(* duration keep the values of the source; the request limits are scaled   *)
(* down (1 and 4 stand for 10 and 50) so that queues stay short.           *)
(***************************************************************************)
EXTENDS Integers, Sequences, FiniteSets, TLC

\* ---------------------------------------------------------------- bounds
TickSeconds == 1200
MaxTime == 3
MaxChecks == 6

MaxRequests == 4
MaxPages == 2
MaxCards == 3

MaxActive == 4
MaxProxies == 2
MaxObjects == 4
MaxPasses == 2
MaxProxyOps == 5

\* ------------------------------------------------------ program constants
ban_duration == 60
rate_limit_window == 3600
max_concurrent_scrapes == 3
proxy_health_check_interval == 300

\* ProxyRotator.last_health_check starts at 0, the epoch: more than the check
\* interval before the clock's first tick
EpochTick == -1

Hosts == {"10.0.0.1"}
ApiKeys == {"key1"}
IdentifierTypes == {"ip", "api_key"}

\* (max_requests, window_size) pairs passed by the endpoints of routes.py:
\* login / proxy health-check use (10, 300), start_scraping uses (50, 3600).
LoginLimit == [max_requests |-> 1, window_size |-> 300]
ScrapeLimit == [max_requests |-> 4, window_size |-> 3600]
Limits == {LoginLimit, ScrapeLimit}

\* identifier = request.client.host, or f"api_{api_key}"
Identifier(identifier_type, host, key) ==
    IF identifier_type = "ip" THEN host ELSE "api_" \o key

Identifiers == Hosts \cup {"api_" \o k : k \in ApiKeys}

NoBan == -1

\* allowed_sites of ScrapingRequest.validate_target_site ("deutsche-aerzte.info"
\* is handled exactly like "arztauskunft.de" and is left out)
Sites == {"jameda.de", "doctolib.de", "arztauskunft.de"}

\* the keys of ScrapingOrchestrator.scrapers
scrapers == {"jameda.de", "doctolib.de"}

\* Python's None for an optional number / an optional text
None == -1
NoText == "None"

\* The environments the sessions run in.  Sessions share nothing but
\* active_scrapes, so the model explores
\*   - up to MaxRequests requests for one site, each site answering one page
\*     of cards, with a store and a notifier that work;
\*   - two requests for any sites, one page of cards each, where the browser,
\*     the store and the notifier may fail at every call;
\*   - one request with every site answer (cards that repeat a (name, address)
\*     pair included), page budget and failure.
Worlds ==
    {[requests |-> MaxRequests, sites |-> {site}, notify |-> {FALSE},
      pages |-> 1, answers |-> {"cards"}, named |-> {1}, duplicates |-> FALSE,
      faults |-> FALSE] : site \in Sites}
    \cup
    {[requests |-> 2, sites |-> Sites, notify |-> {FALSE},
      pages |-> 1, answers |-> {"cards"}, named |-> {1}, duplicates |-> FALSE,
      faults |-> TRUE]}
    \cup
    {[requests |-> 1, sites |-> Sites, notify |-> BOOLEAN,
      pages |-> MaxPages, answers |-> {"cards", "empty", "error"},
      named |-> 0..MaxCards, duplicates |-> TRUE, faults |-> TRUE]}

IdleWorld == [requests |-> 0, sites |-> {}, notify |-> {}, pages |-> 0, answers |-> {},
              named |-> {}, duplicates |-> FALSE, faults |-> FALSE]

VARIABLES
    now,           \* the wall clock, in ticks
    requests,      \* RateLimiter.requests      : host -> queue of timestamps
    api_requests,  \* RateLimiter.api_requests  : "api_<key>" -> queue
    banned_ips,    \* RateLimiter.banned_ips    : host -> ban time
    last,          \* the most recent check_rate_limit call and its outcome
    allowed_log,   \* history: identifier -> the allowed checks, <<limit, time>> each
    issued,        \* history: identifier -> [n: checks issued, limits: those used, banned: checks refused as banned]
    n_checks,      \* history: total number of checks issued
    world,         \* the environment of the sessions (fixed at start)
    n_requests,    \* number of POST /scraping/start requests received
    last_start,    \* the most recent start_scraping request and its response
    active_scrapes,\* ScrapeRateLimiter.active_scrapes : site -> count
    sessions,      \* table scraping_sessions : session id -> row
    scraped_data,  \* table scraped_data : session id -> number of rows stored
    tasks,         \* the background task of each session (run_scraping_background)
    status_log,    \* history: session id -> the statuses its row has held
    proxies,       \* ProxyRotator.proxies : list of ProxyConfig objects (by object id)
    proxy_objects, \* every ProxyConfig object created : id -> [server, is_healthy]
    current_index, \* ProxyRotator.current_index
    last_health_check, \* ProxyRotator.last_health_check, in ticks
    health_passes, \* the check_all_proxies_health calls in progress
    n_proxy_ops,   \* history: number of pool operations started
    last_acquire,  \* history: the most recent get_next_proxy / get_random_proxy call
    rotation_log,  \* history: what get_next_proxy returned while the healthy list stayed the same
    last_pass,     \* history: the most recent probe collected by a health-check pass
    is_initialized, \* ProxyManager._is_initialized
    call           \* the most recent direct call of a function and its result

rl_vars == <<now, requests, api_requests, banned_ips, last, allowed_log, issued, n_checks>>

session_vars == <<world, n_requests, last_start, active_scrapes, sessions, scraped_data,
                  tasks, status_log>>

proxy_vars == <<proxies, proxy_objects, current_index, last_health_check, health_passes,
                n_proxy_ops, last_acquire, rotation_log, last_pass, is_initialized>>

vars == <<now, requests, api_requests, banned_ips, last, allowed_log, issued, n_checks,
          world, n_requests, last_start, active_scrapes, sessions, scraped_data,
          tasks, status_log, proxies, proxy_objects, current_index, last_health_check,
          health_passes, n_proxy_ops, last_acquire, rotation_log, last_pass,
          is_initialized, call>>

Results == {"allowed", "limited", "banned"}

\* --------------------------------------------------------- RateLimiter

\* a purge that removes the oldest entry only
clean_old_requests_once(request_queue, window_size) ==
    IF request_queue # <<>> /\ (now - Head(request_queue)) * TickSeconds > window_size
    THEN Tail(request_queue)
    ELSE request_queue

\* while request_queue and current_time - request_queue[0] > window_size: popleft()
RECURSIVE clean_old_requests(_, _)
clean_old_requests(request_queue, window_size) ==
    IF request_queue # <<>> /\ (now - Head(request_queue)) * TickSeconds > window_size
    THEN clean_old_requests(Tail(request_queue), window_size)
    ELSE request_queue

\* the comparison of _is_banned: datetime.now() - ban_time < timedelta(minutes=ban_duration)
ban_active_off_by_one(ban_time) ==
    (now - ban_time) * TickSeconds <= ban_duration * 60

ban_active(ban_time) ==
    (now - ban_time) * TickSeconds < ban_duration * 60

\* the value _is_banned returns
is_banned(ip) ==
    ip \in DOMAIN banned_ips /\ ban_active(banned_ips[ip])

\* banned_ips after _is_banned: an expired record is deleted
banned_after_is_banned(ip) ==
    IF ip \in DOMAIN banned_ips /\ ~ban_active(banned_ips[ip])
    THEN [h \in DOMAIN banned_ips \ {ip} |-> banned_ips[h]]
    ELSE banned_ips

\* self.banned_ips[ip] = datetime.now()
ban_ip(bans, ip) ==
    [h \in DOMAIN bans \cup {ip} |-> IF h = ip THEN now ELSE bans[h]]

\* line 148: identifier_type == "ip" and len(request_queue) > max_requests * 2
ban_condition_three_times(identifier_type, qlen, max_requests) ==
    identifier_type = "ip" /\ qlen > max_requests * 3

ban_condition(identifier_type, qlen, max_requests) ==
    identifier_type = "ip" /\ qlen > max_requests * 2

\* line 133: len(request_queue) >= max_requests
limit_reached_one_late(qlen, max_requests) ==
    qlen > max_requests

limit_reached(qlen, max_requests) ==
    qlen >= max_requests

\* line 157: request_queue.append(current_time)
record_request_twice(request_queue, current_time) ==
    Append(Append(request_queue, current_time), current_time)

record_request(request_queue, current_time) ==
    Append(request_queue, current_time)

\* The outcome of one check_rate_limit call as a record of the new state.
check_rate_limit(host, key, identifier_type, limit) ==
    LET request_queue == IF identifier_type = "ip" THEN requests[host]
                         ELSE api_requests["api_" \o key]
        banned == identifier_type = "ip" /\ is_banned(host)
        bans1 == IF identifier_type = "ip" THEN banned_after_is_banned(host)
                 ELSE banned_ips
        cleaned == clean_old_requests(request_queue, limit.window_size)
        limited == limit_reached(Len(cleaned), limit.max_requests)
        result == IF banned THEN "banned"
                  ELSE IF limited THEN "limited" ELSE "allowed"
        queue2 == IF banned THEN request_queue
                  ELSE IF limited THEN cleaned
                  ELSE record_request(cleaned, now)
        bans2 == IF ~banned /\ limited
                    /\ ban_condition(identifier_type, Len(cleaned), limit.max_requests)
                 THEN ban_ip(bans1, host)
                 ELSE bans1
    IN [result |-> result,
        queue_before |-> request_queue,
        checked_len |-> Len(cleaned),
        queue_after |-> queue2,
        requests |-> IF identifier_type = "ip"
                     THEN [requests EXCEPT ![host] = queue2] ELSE requests,
        api_requests |-> IF identifier_type = "ip" THEN api_requests
                         ELSE [api_requests EXCEPT !["api_" \o key] = queue2],
        banned_ips |-> bans2]

\* The bookkeeping of one check: the new limiter state and the history.
ApplyCheck(host, key, identifier_type, limit) ==
    LET r == check_rate_limit(host, key, identifier_type, limit)
        id == Identifier(identifier_type, host, key)
    IN /\ requests' = r.requests
       /\ api_requests' = r.api_requests
       /\ banned_ips' = r.banned_ips
       /\ last' = [identifier_type |-> identifier_type, host |-> host,
                   identifier |-> id, limit |-> limit, time |-> now,
                   ban_time |-> IF host \in DOMAIN banned_ips
                                THEN banned_ips[host] ELSE NoBan,
                   queue_before |-> r.queue_before,
                   checked_len |-> r.checked_len,
                   queue_after |-> r.queue_after,
                   ban_after |-> IF host \in DOMAIN r.banned_ips
                                 THEN r.banned_ips[host] ELSE NoBan,
                   result |-> r.result]
       /\ allowed_log' = IF r.result = "allowed"
                         THEN [allowed_log EXCEPT ![id] = Append(@, <<limit, now>>)]
                         ELSE allowed_log
       /\ issued' = [issued EXCEPT ![id] =
                        [n |-> @.n + 1, limits |-> @.limits \cup {limit},
                         banned |-> IF r.result = "banned" THEN @.banned + 1 ELSE @.banned]]
       /\ n_checks' = n_checks + 1

\* apply_rate_limit / RateLimiter.check_rate_limit called by an endpoint
CheckRateLimit ==
    \E host \in Hosts, key \in ApiKeys, identifier_type \in IdentifierTypes, limit \in Limits :
        /\ n_checks < MaxChecks
        /\ ApplyCheck(host, key, identifier_type, limit)
        /\ UNCHANGED <<now, session_vars, proxy_vars, call>>

\* RateLimiter.get_rate_limit_info (GET /rate-limit/info): cleans the queue with
\* the default window and evaluates _is_banned
GetRateLimitInfo ==
    \E ip \in Hosts :
        /\ requests' = [requests EXCEPT ![ip] = clean_old_requests(@, rate_limit_window)]
        /\ banned_ips' = banned_after_is_banned(ip)
        /\ UNCHANGED <<now, api_requests, last, allowed_log, issued, n_checks, session_vars,
                       proxy_vars, call>>

\* the clock advances
Tick ==
    /\ now < MaxTime
    /\ now' = now + 1
    /\ UNCHANGED <<requests, api_requests, banned_ips, last, allowed_log, issued, n_checks,
                   session_vars, proxy_vars, call>>

NoCheck == [identifier_type |-> "none", host |-> "", identifier |-> "",
            limit |-> LoginLimit, time |-> 0, ban_time |-> NoBan,
            queue_before |-> <<>>, checked_len |-> 0, queue_after |-> <<>>,
            ban_after |-> NoBan, result |-> "none"]

RateInit ==
    /\ now = 0
    /\ requests = [h \in Hosts |-> <<>>]
    /\ api_requests = [a \in {"api_" \o k : k \in ApiKeys} |-> <<>>]
    /\ banned_ips = <<>>
    /\ last = NoCheck
    /\ allowed_log = [i \in Identifiers |-> <<>>]
    /\ issued = [i \in Identifiers |-> [n |-> 0, limits |-> {}, banned |-> 0]]
    /\ n_checks = 0

NextRate == CheckRateLimit \/ GetRateLimitInfo \/ Tick

\* ---------------------------------------------------- ScrapeRateLimiter

\* line 248: self.active_scrapes[site] >= max_concurrent  (429 when true)
scraping_limit_reached_off_by_one(site, max_concurrent) ==
    active_scrapes[site] > max_concurrent

scraping_limit_reached(site, max_concurrent) ==
    active_scrapes[site] >= max_concurrent

\* self.active_scrapes[site] += 1
start_scraping_uncounted(site) ==
    active_scrapes

start_scraping(site) ==
    [active_scrapes EXCEPT ![site] = @ + 1]

\* if self.active_scrapes[site] > 0: self.active_scrapes[site] -= 1
finish_scraping_keeps_last(site) ==
    IF active_scrapes[site] > 1
    THEN [active_scrapes EXCEPT ![site] = @ - 1]
    ELSE active_scrapes

finish_scraping_unfloored(site) ==
    [active_scrapes EXCEPT ![site] = @ - 1]

finish_scraping(site) ==
    IF active_scrapes[site] > 0
    THEN [active_scrapes EXCEPT ![site] = @ - 1]
    ELSE active_scrapes

\* --------------------------------------------------- ScrapingRepository

\* ScrapingSession(...) with the column defaults of models.py
NewSessionRow(target_site) ==
    [target_site |-> target_site, status |-> "pending", pages_scraped |-> 0,
     total_records |-> 0, error_log |-> NoText]

\* update_session_status: the row after the commit; None arguments keep the column
update_session_status_keeps_counters(session_id, status, pages_scraped, total_records, error_log) ==
    IF session_id \in DOMAIN sessions
    THEN [sessions EXCEPT ![session_id] =
            [@ EXCEPT !.status = status,
                      !.error_log = IF error_log # NoText THEN error_log ELSE @]]
    ELSE sessions

update_session_status_drops_error_log(session_id, status, pages_scraped, total_records, error_log) ==
    IF session_id \in DOMAIN sessions
    THEN [sessions EXCEPT ![session_id] =
            [@ EXCEPT !.status = status,
                      !.pages_scraped = IF pages_scraped # None THEN pages_scraped ELSE @,
                      !.total_records = IF total_records # None THEN total_records ELSE @]]
    ELSE sessions

update_session_status(session_id, status, pages_scraped, total_records, error_log) ==
    IF session_id \in DOMAIN sessions
    THEN [sessions EXCEPT ![session_id] =
            [@ EXCEPT !.status = status,
                      !.pages_scraped = IF pages_scraped # None THEN pages_scraped ELSE @,
                      !.total_records = IF total_records # None THEN total_records ELSE @,
                      !.error_log = IF error_log # NoText THEN error_log ELSE @]]
    ELSE sessions

\* save_scraped_data: db.add, db.commit.  The number of rows stored for the
\* session after the call; a commit that raises leaves the earlier commits alone.
save_scraped_data_rolls_back(stored, ok) ==
    IF ok THEN stored + 1 ELSE 0

save_scraped_data(stored, ok) ==
    IF ok THEN stored + 1 ELSE stored

\* ------------------------------------------------------- the scraper

\* BaseScraper.__init__: self.stats
NewStats == [pages_scraped |-> 0, total_records |-> 0, errors |-> 0,
             start_time |-> None, end_time |-> None]

\* the background task scheduled by start_scraping
NewTask(target_site, notify_email, max_pages) ==
    [pc |-> "queued", target_site |-> target_site, notify_email |-> notify_email,
     max_pages |-> max_pages, stats |-> NewStats, page_num |-> 0, providers |-> 0,
     saved_count |-> 0, error |-> NoText, result |-> "none", cleanups |-> 0,
     setup_failed |-> FALSE, fault |-> FALSE, released |-> 0, raised_at |-> "none",
     distinct |-> 0, started_sends |-> 0, final_sends |-> 0]

\* whether an operation that can fail (store, browser, notifier) works this time
Outcomes == IF world.faults THEN {TRUE, FALSE} ELSE {TRUE}

NotifierOutcomes == IF world.faults THEN {"sent", "error", "raise"} ELSE {"sent"}

SessionIds == DOMAIN tasks

Frame(s, t) ==
    /\ tasks' = [tasks EXCEPT ![s] = t]
    /\ UNCHANGED <<rl_vars, world, n_requests, last_start, proxy_vars, call>>

LogStatus(s, status) ==
    status_log' = [status_log EXCEPT ![s] = Append(@, status)]

\* ----------------------------------------------- POST /scraping/start

\* start_scraping (routes.py): rate limit, concurrency check, create_session,
\* add_task, start_scraping.  The awaited limiter calls never suspend and
\* create_session is synchronous, so the handler body runs as one step of the
\* event loop.
StartScraping ==
    \E host \in Hosts, site \in world.sites, notify_email \in world.notify,
       max_pages \in 1..world.pages, created \in Outcomes :
        LET key == CHOOSE k \in ApiKeys : TRUE
            rate == check_rate_limit(host, key, "ip", ScrapeLimit).result
            id == Len(sessions) + 1
            response(status, detail) ==
                [n |-> n_requests + 1, site |-> site, status |-> status,
                 detail |-> detail, active_before |-> active_scrapes[site]]
        IN /\ n_requests < world.requests
           /\ n_requests' = n_requests + 1
           /\ ApplyCheck(host, key, "ip", ScrapeLimit)
           /\ UNCHANGED <<now, world, proxy_vars, call>>
           /\ IF rate # "allowed"
              THEN /\ last_start' = response(429, "rate limit")
                   /\ UNCHANGED <<active_scrapes, sessions, scraped_data, tasks, status_log>>
              ELSE IF scraping_limit_reached(site, max_concurrent_scrapes)
              THEN /\ last_start' = response(429, "concurrent scrapes")
                   /\ UNCHANGED <<active_scrapes, sessions, scraped_data, tasks, status_log>>
              ELSE IF ~created
              THEN /\ last_start' = response(500, "create_session")
                   /\ UNCHANGED <<active_scrapes, sessions, scraped_data, tasks, status_log>>
              ELSE /\ last_start' = response(200, "pending")
                   /\ sessions' = Append(sessions, NewSessionRow(site))
                   /\ scraped_data' = Append(scraped_data, 0)
                   /\ tasks' = Append(tasks, NewTask(site, notify_email, max_pages))
                   /\ status_log' = Append(status_log, <<"pending">>)
                   /\ active_scrapes' = start_scraping(site)

\* ------------------------------------------- run_scraping_background

\* lines 201-214: the "started" notification, when notify_email is set
BgStart(s) ==
    /\ tasks[s].pc = "queued"
    /\ \E outcome \in NotifierOutcomes :
        LET t == [tasks[s] EXCEPT !.started_sends =
                                      IF tasks[s].notify_email THEN @ + 1 ELSE @] IN
        /\ (~t.notify_email) => outcome = "sent"
        /\ IF t.notify_email /\ outcome = "raise"
           THEN Frame(s, [t EXCEPT !.pc = "bg_finally", !.result = "notifier raised",
                                   !.fault = TRUE])
           ELSE Frame(s, [t EXCEPT !.pc = "orch"])
    /\ UNCHANGED <<active_scrapes, sessions, scraped_data, status_log>>

\* run_scraping_session lines 494-504: the scraper lookup and construction
OrchStart(s) ==
    /\ tasks[s].pc = "orch"
    /\ LET t == tasks[s] IN
       IF t.target_site \notin scrapers
       THEN Frame(s, [t EXCEPT !.pc = "bg_notify", !.result = "failure",
                               !.error = "Unsupported target site"])
       ELSE Frame(s, [t EXCEPT !.pc = "setup", !.stats = NewStats])
    /\ UNCHANGED <<active_scrapes, sessions, scraped_data, status_log>>

\* BaseScraper.setup: proxy, playwright, browser, context, page, http session
Setup(s) ==
    /\ tasks[s].pc = "setup"
    /\ \E ok \in Outcomes :
        LET t == [tasks[s] EXCEPT !.stats.start_time = now] IN
        IF ok
        THEN Frame(s, [t EXCEPT !.pc = "mark_running"])
        ELSE Frame(s, [t EXCEPT !.pc = "except", !.error = "setup error",
                                !.setup_failed = TRUE, !.fault = TRUE,
                                !.raised_at = "setup"])
    /\ UNCHANGED <<active_scrapes, sessions, scraped_data, status_log>>

\* lines 513-517: update_session_status(db, session_id, "running", 0, 0)
MarkRunning(s) ==
    /\ tasks[s].pc = "mark_running"
    /\ \E ok \in Outcomes :
        LET t == tasks[s] IN
        IF ok
        THEN /\ sessions' = update_session_status(s, "running", 0, 0, NoText)
             /\ LogStatus(s, "running")
             /\ Frame(s, [t EXCEPT !.pc = "search"])
        ELSE /\ Frame(s, [t EXCEPT !.pc = "except", !.error = "store error",
                                   !.fault = TRUE, !.raised_at = "mark_running"])
             /\ UNCHANGED <<sessions, status_log>>
    /\ UNCHANGED <<active_scrapes, scraped_data>>

\* the end of search_providers' page loop: self.stats["total_records"] = len(providers)
EndOfPages_without_total(t) ==
    [t EXCEPT !.pc = "save_open"]

EndOfPages(t) ==
    [t EXCEPT !.pc = "save_open", !.stats.total_records = t.providers]

\* search_providers up to the page loop.  DoctolibScraper first loads the
\* search page outside the per-page try: a failure there ends the search
\* through the outer except (errors += 1, providers returned as they are).
SearchBegin(s) ==
    /\ tasks[s].pc = "search"
    /\ \E ok \in Outcomes :
        LET t == tasks[s] IN
        /\ (t.target_site # "doctolib.de") => ok
        /\ IF ok
           THEN Frame(s, [t EXCEPT !.pc = "page", !.page_num = 1])
           ELSE Frame(s, [t EXCEPT !.pc = "save_open", !.stats.errors = @ + 1])
    /\ UNCHANGED <<active_scrapes, sessions, scraped_data, status_log>>

\* a page loop that runs one iteration past the budget
last_page_one_more(page_num, max_pages) ==
    page_num = max_pages + 1

\* range(1, max_pages + 1) is exhausted after the iteration page_num = max_pages
last_page(page_num, max_pages) ==
    page_num = max_pages

\* one iteration of `for page_num in range(1, max_pages + 1)` of
\* JamedaScraper / DoctolibScraper.search_providers
SearchPage(s) ==
    /\ tasks[s].pc = "page"
    /\ \E outcome \in world.answers, named \in world.named \cup {0}, next \in BOOLEAN,
          new \in 0..MaxCards :
        LET t == tasks[s]
            advance(u) == IF last_page(t.page_num, t.max_pages) THEN EndOfPages(u)
                          ELSE [u EXCEPT !.page_num = @ + 1]
        IN
        /\ (outcome # "cards") => (named = 0 /\ next)
        /\ (outcome = "cards") => named \in world.named
        \* `new` of the named cards carry a (name, address) pair not seen before
        \* in this invocation
        /\ new <= named
        /\ (t.distinct = 0 /\ named > 0) => new >= 1
        /\ (~world.duplicates) => new = named
        /\ (t.target_site = "jameda.de") => next
        /\ CASE outcome = "empty" -> Frame(s, EndOfPages(t))
             [] outcome = "error" ->
                    Frame(s, advance([t EXCEPT !.stats.errors = @ + 1]))
             [] outcome = "cards" ->
                    LET u == [t EXCEPT !.providers = @ + named,
                                       !.distinct = @ + new,
                                       !.stats.pages_scraped = @ + 1]
                    IN  \* Doctolib: no "Next page" link (or a failed click) breaks
                        IF next THEN Frame(s, advance(u)) ELSE Frame(s, EndOfPages(u))
    /\ UNCHANGED <<active_scrapes, sessions, scraped_data, status_log>>

\* lines 531-540: `for provider in providers` is left for the completed update
\* when every provider has been saved
all_saved_after_first(saved_count, providers) ==
    saved_count >= 1

all_saved(saved_count, providers) ==
    saved_count = providers

\* lines 527-530: saved_count = 0, get_session_by_id
SaveOpen(s) ==
    /\ tasks[s].pc = "save_open"
    /\ \E ok \in Outcomes :
        LET t == [tasks[s] EXCEPT !.saved_count = 0] IN
        IF ok
        THEN Frame(s, [t EXCEPT !.pc = IF all_saved(0, t.providers)
                                       THEN "mark_completed" ELSE "save"])
        ELSE Frame(s, [t EXCEPT !.pc = "except", !.error = "store error",
                                !.fault = TRUE, !.raised_at = "save_open"])
    /\ UNCHANGED <<active_scrapes, sessions, scraped_data, status_log>>

\* lines 531-538: one iteration of `for provider in providers`
SaveRecord(s) ==
    /\ tasks[s].pc = "save"
    /\ \E ok \in Outcomes :
        LET t == tasks[s] IN
        /\ scraped_data' = [scraped_data EXCEPT ![s] = save_scraped_data(@, ok)]
        /\ IF ok
           THEN Frame(s, [t EXCEPT !.saved_count = @ + 1,
                                   !.pc = IF all_saved(t.saved_count + 1, t.providers)
                                          THEN "mark_completed" ELSE "save"])
           ELSE Frame(s, [t EXCEPT !.pc = "except", !.error = "save error",
                                   !.fault = TRUE, !.raised_at = "save"])
    /\ UNCHANGED <<active_scrapes, sessions, status_log>>

\* lines 540-545: update_session_status(db, session_id, "completed", ...)
MarkCompleted(s) ==
    /\ tasks[s].pc = "mark_completed"
    /\ \E ok \in Outcomes :
        LET t == tasks[s] IN
        IF ok
        THEN /\ sessions' = update_session_status(s, "completed", t.stats.pages_scraped,
                                                  t.saved_count, NoText)
             /\ LogStatus(s, "completed")
             /\ Frame(s, [t EXCEPT !.pc = "build_result"])
        ELSE /\ Frame(s, [t EXCEPT !.pc = "except", !.error = "store error",
                                   !.fault = TRUE, !.raised_at = "mark_completed"])
             /\ UNCHANGED <<sessions, status_log>>
    /\ UNCHANGED <<active_scrapes, scraped_data>>

\* lines 586-587: whatever way the try statement is left (return, or an
\* exception raised inside the except block), the finally clause runs next
finally_pc_skipped_on_raise(result) ==
    IF result = "raised" THEN "bg_finally" ELSE "cleanup"

finally_pc(result) == "cleanup"

\* line 560: scraper.stats.get("end_time", 0) - scraper.stats.get("start_time", 0);
\* both keys exist, so get returns the stored value, and None - x raises TypeError
duration_raises(stats) ==
    stats.end_time = None \/ stats.start_time = None

\* lines 547-564: success_rate, the result dict, return
BuildResult(s) ==
    /\ tasks[s].pc = "build_result"
    /\ LET t == tasks[s] IN
       IF duration_raises(t.stats)
       THEN Frame(s, [t EXCEPT !.pc = "except", !.error = "TypeError",
                               !.raised_at = "build_result"])
       ELSE Frame(s, [t EXCEPT !.pc = finally_pc("success"), !.result = "success"])
    /\ UNCHANGED <<active_scrapes, sessions, scraped_data, status_log>>

\* lines 566-584: except Exception: update_session_status(..., "failed", ...)
MarkFailed(s) ==
    /\ tasks[s].pc = "except"
    /\ \E ok \in Outcomes :
        LET t == tasks[s] IN
        IF ok
        THEN /\ sessions' = update_session_status(s, "failed", t.stats.pages_scraped,
                                                  t.stats.total_records, t.error)
             /\ LogStatus(s, "failed")
             /\ Frame(s, [t EXCEPT !.pc = finally_pc("failure"), !.result = "failure"])
        ELSE /\ Frame(s, [t EXCEPT !.pc = finally_pc("raised"), !.result = "raised",
                                   !.error = "status update error", !.fault = TRUE])
             /\ UNCHANGED <<sessions, status_log>>
    /\ UNCHANGED <<active_scrapes, scraped_data>>

\* lines 586-587: finally: await scraper.cleanup().  cleanup sets end_time and
\* closes the http session, page, browser and playwright; when one of them
\* raises, the exception replaces the result of the call.
Cleanup(s) ==
    /\ tasks[s].pc = "cleanup"
    /\ \E ok \in Outcomes :
        LET t == [tasks[s] EXCEPT !.stats.end_time = now, !.cleanups = @ + 1] IN
        IF ok
        THEN Frame(s, [t EXCEPT !.pc = IF t.result = "raised" THEN "bg_finally"
                                       ELSE "bg_notify"])
        ELSE Frame(s, [t EXCEPT !.pc = "bg_finally", !.result = "raised",
                                !.fault = TRUE])
    /\ UNCHANGED <<active_scrapes, sessions, scraped_data, status_log>>

\* routes.py lines 223-239: the "completed" / "error" notification
BgNotify(s) ==
    /\ tasks[s].pc = "bg_notify"
    /\ \E outcome \in NotifierOutcomes :
        LET t == [tasks[s] EXCEPT !.final_sends =
                                      IF tasks[s].notify_email THEN @ + 1 ELSE @] IN
        /\ (~t.notify_email) => outcome = "sent"
        /\ Frame(s, [t EXCEPT !.pc = "bg_finally"])
    /\ UNCHANGED <<active_scrapes, sessions, scraped_data, status_log>>

\* routes.py lines 243-245: finally: finish_scraping(target_site)
BgFinally(s) ==
    /\ tasks[s].pc = "bg_finally"
    /\ active_scrapes' = finish_scraping(tasks[s].target_site)
    /\ Frame(s, [tasks[s] EXCEPT !.pc = "done",
                                 !.released = @ + active_scrapes[tasks[s].target_site]
                                                - active_scrapes'[tasks[s].target_site]])
    /\ UNCHANGED <<sessions, scraped_data, status_log>>

NoStart == [n |-> 0, site |-> "", status |-> 0, detail |-> "", active_before |-> 0]

SessionInit(w) ==
    /\ world = w
    /\ n_requests = 0
    /\ last_start = NoStart
    /\ active_scrapes = [site \in Sites |-> 0]
    /\ sessions = <<>>
    /\ scraped_data = <<>>
    /\ tasks = <<>>
    /\ status_log = <<>>

\* ----------------------------------------------------------- ProxyRotator

\* The environments the proxy pool runs in:
\*   - rotation: one load, one health-check pass at a time, the clock moving;
\*   - overlapping health-check passes;
\*   - membership: add_proxy, remove_unhealthy_proxies, repeated initialize;
\*   - requests that reach a ProxyManager not yet initialized.
ProxyWorlds ==
    {[ops |-> MaxProxyOps, passes |-> 1, objects |-> MaxProxies, membership |-> FALSE,
      clock |-> 1, lazy |-> FALSE],
     [ops |-> MaxProxyOps - 2, passes |-> MaxPasses, objects |-> MaxProxies,
      membership |-> FALSE, clock |-> 1, lazy |-> FALSE],
     [ops |-> MaxProxyOps - 1, passes |-> 1, objects |-> MaxObjects, membership |-> TRUE,
      clock |-> 0, lazy |-> FALSE],
     [ops |-> MaxProxyOps - 2, passes |-> MaxPasses, objects |-> 2 * MaxProxies,
      membership |-> FALSE, clock |-> 0, lazy |-> TRUE]}

\* list helpers
RemoveAt(seq, i) == [j \in 1..(Len(seq) - 1) |-> IF j < i THEN seq[j] ELSE seq[j + 1]]

IndexOf(seq, x) == CHOOSE i \in 1..Len(seq) : seq[i] = x

\* the active proxies of the store, in the order get_active_proxies returns them
ProxyServers == [i \in 1..MaxProxies |-> i]

\* the proxy handed to add_proxy
ExtraServer == MaxProxies + 1

\* ProxyConfig(...): a new object has no attribute is_healthy
NewProxyConfig(server) == [server |-> server, is_healthy |-> "unset"]

ProbeResults == {"healthy", "unhealthy"}

\* [p for p in self.proxies if hasattr(p, 'is_healthy') and p.is_healthy]
healthy_proxies_unprobed_too(list, objects) ==
    SelectSeq(list, LAMBDA p : objects[p].is_healthy # "unhealthy")

healthy_proxies(list, objects) ==
    SelectSeq(list, LAMBDA p : objects[p].is_healthy = "healthy")

\* (current_time - self.last_health_check) > self.health_check_interval
health_data_stale ==
    (now - last_health_check) * TickSeconds > proxy_health_check_interval

\* lines 212-217: the round-robin choice and the index after it
select_round_robin_no_wrap(healthy, index) ==
    LET i == IF index >= Len(healthy) THEN Len(healthy) - 1 ELSE index
    IN [proxy |-> healthy[i + 1], current_index |-> i + 1]

select_round_robin_keeps_cursor(healthy, index) ==
    LET i == IF index >= Len(healthy) THEN 0 ELSE index
    IN [proxy |-> healthy[i + 1], current_index |-> index + 1]

select_round_robin(healthy, index) ==
    LET i == IF index >= Len(healthy) THEN 0 ELSE index
    IN [proxy |-> healthy[i + 1], current_index |-> i + 1]

\* the proxies a health-check pass creates a probe task for: `for proxy in self.proxies`
probe_targets_skip_unhealthy(list, objects) ==
    SelectSeq(list, LAMBDA p : objects[p].is_healthy # "unhealthy")

probe_targets(list, objects) == list

NoAcquire == [kind |-> "none", n |-> 0, stale |-> FALSE, waited |-> 0,
              healthy_before |-> <<>>, healthy_at |-> <<>>, known |-> <<>>, flags |-> <<>>,
              cursor |-> 0, cursor_after |-> 0, returned |-> 0]

\* the is_healthy flags of the proxies of a list ("unset": no such attribute)
Flags(list, objects) == [i \in 1..Len(list) |-> objects[list[i]].is_healthy]

EmptyLog == [healthy |-> <<>>, returned |-> <<>>]

NoPass == [tasks |-> <<>>, known |-> <<>>, pos |-> 0, object |-> 0, result |-> "unset",
           flag_before |-> "unset", flag_after |-> "unset", done |-> FALSE]

\* rotation_log after a step: forgotten as soon as the healthy list differs
KeepLog(list, objects) ==
    IF healthy_proxies(list, objects) = healthy_proxies(proxies, proxy_objects)
    THEN rotation_log ELSE EmptyLog

\* get_next_proxy from the filter on (lines 205-219); `objects` are the proxy
\* objects as this step leaves them, `started` tells how the call began
ServeNext(objects, started) ==
    LET healthy == healthy_proxies(proxies, objects)
        pick == select_round_robin(healthy, current_index)
        log == IF rotation_log.healthy = healthy
                  /\ healthy = healthy_proxies(proxies, proxy_objects)
               THEN rotation_log ELSE [healthy |-> healthy, returned |-> <<>>]
        answer(returned, index) ==
            [kind |-> started.kind, n |-> started.n, stale |-> started.stale,
             waited |-> started.waited,
             healthy_before |-> started.healthy, healthy_at |-> healthy,
             known |-> proxies, flags |-> Flags(proxies, objects),
             cursor |-> current_index, cursor_after |-> index, returned |-> returned]
    IN IF healthy = <<>>
       THEN /\ current_index' = current_index
            /\ last_acquire' = answer(0, current_index)
            /\ rotation_log' = log
       ELSE /\ current_index' = pick.current_index
            /\ last_acquire' = answer(pick.proxy, pick.current_index)
            /\ rotation_log' =
                   [log EXCEPT !.returned =
                       IF Len(@) > Len(healthy) THEN Append(Tail(@), pick.proxy)
                       ELSE Append(@, pick.proxy)]

\* check_all_proxies_health up to its first await: one probe task per proxy
NewPass(list, objects, waiter) ==
    [tasks |-> probe_targets(list, objects), known |-> list, pos |-> 1, waiter |-> waiter,
     n |-> n_proxy_ops + 1, started |-> now, healthy |-> healthy_proxies(list, objects)]

ProxyFrame == UNCHANGED <<rl_vars, session_vars, call>>

\* ProxyRotator.initialize: load_proxies_from_database, then (rotation enabled)
\* check_all_proxies_health.  A failed load is logged and keeps the list.
\* Called at startup (main.py line 49) where the manager is not left to
\* initialize itself on the first request.
Initialize ==
    \E loaded \in BOOLEAN :
        LET fresh == [i \in 1..MaxProxies |-> NewProxyConfig(ProxyServers[i])]
            objects == IF loaded THEN proxy_objects \o fresh ELSE proxy_objects
            list == IF loaded
                    THEN [i \in 1..MaxProxies |-> Len(proxy_objects) + i]
                    ELSE proxies
        IN /\ ~world.lazy
           /\ n_proxy_ops < world.ops
           /\ Len(proxy_objects) + MaxProxies <= world.objects
           /\ Len(health_passes) < world.passes
           /\ n_proxy_ops' = n_proxy_ops + 1
           /\ proxy_objects' = objects
           /\ proxies' = list
           /\ health_passes' = IF list = <<>> THEN health_passes
                               ELSE Append(health_passes, NewPass(list, objects, "none"))
           /\ rotation_log' = KeepLog(list, objects)
           /\ UNCHANGED <<now, current_index, last_health_check, last_acquire, last_pass,
                          is_initialized>>
           /\ ProxyFrame

\* ProxyRotator.add_proxy
AddProxy ==
    /\ world.membership
    /\ n_proxy_ops < world.ops
    /\ Len(proxy_objects) < world.objects
    /\ n_proxy_ops' = n_proxy_ops + 1
    /\ proxy_objects' = Append(proxy_objects, NewProxyConfig(ExtraServer))
    /\ proxies' = Append(proxies, Len(proxy_objects) + 1)
    /\ UNCHANGED <<now, current_index, last_health_check, health_passes, last_acquire,
                   rotation_log, last_pass>>
    /\ UNCHANGED is_initialized
    /\ ProxyFrame

\* ProxyRotator.remove_unhealthy_proxies
RemoveUnhealthyProxies ==
    /\ world.membership
    /\ n_proxy_ops < world.ops
    /\ n_proxy_ops' = n_proxy_ops + 1
    /\ proxies' = healthy_proxies(proxies, proxy_objects)
    /\ UNCHANGED <<now, proxy_objects, current_index, last_health_check, health_passes,
                   last_acquire, rotation_log, last_pass>>
    /\ UNCHANGED is_initialized
    /\ ProxyFrame

\* POST /proxy/health-check (routes.py line 347): check_all_proxies_health
CheckAllProxiesHealth ==
    /\ n_proxy_ops < world.ops
    /\ Len(health_passes) < world.passes
    /\ proxies # <<>>
    /\ n_proxy_ops' = n_proxy_ops + 1
    /\ health_passes' = Append(health_passes, NewPass(proxies, proxy_objects, "none"))
    /\ UNCHANGED <<now, proxies, proxy_objects, current_index, last_health_check,
                   last_acquire, rotation_log, last_pass>>
    /\ UNCHANGED is_initialized
    /\ ProxyFrame

\* ProxyRotator.get_next_proxy up to its return or to the await of the health
\* check (line 203)
GetNextProxy ==
    /\ n_proxy_ops < world.ops
    /\ n_proxy_ops' = n_proxy_ops + 1
    /\ IF proxies = <<>>
       THEN /\ last_acquire' = [NoAcquire EXCEPT !.kind = "next", !.n = n_proxy_ops + 1,
                                                 !.cursor = current_index,
                                                 !.cursor_after = current_index]
            /\ UNCHANGED <<current_index, health_passes, rotation_log>>
       ELSE IF health_data_stale
       THEN /\ Len(health_passes) < world.passes
            /\ health_passes' = Append(health_passes, NewPass(proxies, proxy_objects, "next"))
            /\ UNCHANGED <<current_index, last_acquire, rotation_log>>
       ELSE /\ ServeNext(proxy_objects,
                         [kind |-> "next", n |-> n_proxy_ops + 1, stale |-> FALSE,
                          waited |-> 0,
                          healthy |-> healthy_proxies(proxies, proxy_objects)])
            /\ UNCHANGED health_passes
    /\ UNCHANGED <<now, proxies, proxy_objects, last_health_check, last_pass>>
    /\ UNCHANGED is_initialized
    /\ ProxyFrame

\* get_random_proxy has no assignment to self.current_index
index_after_random_advanced(index) == index + 1

index_after_random(index) == index

\* ProxyRotator.get_random_proxy: random.choice(healthy_proxies); the age of
\* the health data is not looked at
GetRandomProxy ==
    LET healthy == healthy_proxies(proxies, proxy_objects) IN
    /\ n_proxy_ops < world.ops
    /\ n_proxy_ops' = n_proxy_ops + 1
    /\ \E returned \in {healthy[i] : i \in 1..Len(healthy)} \cup {0} :
        /\ (returned = 0) <=> (healthy = <<>>)
        /\ last_acquire' = [kind |-> "random", n |-> n_proxy_ops + 1,
                            stale |-> health_data_stale,
                            waited |-> 0,
                            healthy_before |-> healthy, healthy_at |-> healthy,
                            known |-> proxies, flags |-> Flags(proxies, proxy_objects),
                            cursor |-> current_index, cursor_after |-> current_index,
                            returned |-> returned]
    /\ current_index' = index_after_random(current_index)
    /\ UNCHANGED <<now, proxies, proxy_objects, last_health_check,
                   health_passes, rotation_log, last_pass>>
    /\ UNCHANGED is_initialized
    /\ ProxyFrame

\* check_all_proxies_health lines 255-275: `result = await task` for the next
\* proxy of the pass and the assignment of its flag (an exception of the task
\* counts as unhealthy); after the last one last_health_check is set and the
\* caller goes on: get_next_proxy filters and chooses without another await.
CollectProbe ==
    \E i \in 1..Len(health_passes), result \in ProbeResults :
        LET pass == health_passes[i]
            object == pass.tasks[pass.pos]
            objects == [proxy_objects EXCEPT ![object].is_healthy = result]
            done == pass.pos = Len(pass.tasks)
        IN /\ proxy_objects' = objects
           /\ last_pass' = [tasks |-> pass.tasks, known |-> pass.known, pos |-> pass.pos,
                            object |-> object, result |-> result,
                            flag_before |-> proxy_objects[object].is_healthy,
                            flag_after |-> objects[object].is_healthy, done |-> done]
           /\ IF ~done
              THEN /\ health_passes' = [health_passes EXCEPT ![i].pos = @ + 1]
                   /\ rotation_log' = KeepLog(proxies, objects)
                   /\ UNCHANGED <<current_index, last_health_check, last_acquire>>
              ELSE /\ health_passes' = RemoveAt(health_passes, i)
                   /\ last_health_check' = now
                   /\ IF pass.waiter \in {"next", "request"}
                      THEN ServeNext(objects, [kind |-> pass.waiter, n |-> pass.n,
                                               stale |-> pass.waiter = "next",
                                               waited |-> Len(pass.tasks),
                                               healthy |-> pass.healthy])
                      ELSE /\ rotation_log' = KeepLog(proxies, objects)
                           /\ UNCHANGED <<current_index, last_acquire>>
           /\ is_initialized' = (is_initialized \/ (done /\ pass.waiter = "request"))
           /\ UNCHANGED <<now, proxies, n_proxy_ops>>
           /\ ProxyFrame

\* ProxyRotator.__init__
ProxyInit ==
    /\ proxies = <<>>
    /\ proxy_objects = <<>>
    /\ current_index = 0
    /\ last_health_check = EpochTick
    /\ health_passes = <<>>
    /\ n_proxy_ops = 0
    /\ last_acquire = NoAcquire
    /\ rotation_log = EmptyLog
    /\ last_pass = NoPass
    /\ is_initialized = FALSE

\* ProxyManager.get_proxy_for_request (round robin, proxies enabled) reaching
\* a manager whose _is_initialized is still False: ProxyManager.initialize
\* loads the list and awaits the health check; the flag is set when that
\* returns, and get_next_proxy follows without another await.
GetProxyForRequest ==
    \E loaded \in BOOLEAN :
        LET fresh == [i \in 1..MaxProxies |-> NewProxyConfig(ProxyServers[i])]
            objects == IF loaded THEN proxy_objects \o fresh ELSE proxy_objects
            list == IF loaded
                    THEN [i \in 1..MaxProxies |-> Len(proxy_objects) + i]
                    ELSE proxies
        IN /\ world.lazy
           /\ ~is_initialized
           /\ n_proxy_ops < world.ops
           /\ Len(proxy_objects) + MaxProxies <= world.objects
           /\ Len(health_passes) < world.passes
           /\ n_proxy_ops' = n_proxy_ops + 1
           /\ proxy_objects' = objects
           /\ proxies' = list
           /\ rotation_log' = KeepLog(list, objects)
           /\ IF list = <<>>
              THEN /\ is_initialized' = TRUE
                   /\ last_acquire' = [NoAcquire EXCEPT !.kind = "request",
                                                        !.n = n_proxy_ops + 1,
                                                        !.cursor = current_index,
                                                        !.cursor_after = current_index]
                   /\ UNCHANGED health_passes
              ELSE /\ health_passes' =
                          Append(health_passes, NewPass(list, objects, "request"))
                   /\ UNCHANGED <<is_initialized, last_acquire>>
           /\ UNCHANGED <<now, current_index, last_health_check, last_pass>>
           /\ ProxyFrame

\* the clock advances while the pool is in use
ProxyTick ==
    /\ now < world.clock
    /\ Tick

NoCall == [op |-> "none"]

\* ---------------------------------------------------------------------------
\* HealthcareProvider.calculate_confidence_score
\*
\* An Optional[str] field is the sequence of its characters, a missing one
\* (Python None) is NoField; the rating is a number or None.  The score is
\* held in tenths of a point, so that 17.5 is the integer 175.

NoField == <<NoText>>

TenthsPerPoint == 10

TextValues == {NoField, <<>>, <<" ">>, <<"x">>, <<" ", "x", " ">>}

RatingValues == {None, 0, 5}

Providers ==
    [name : TextValues, address : TextValues, phone : TextValues,
     email : TextValues, rating : RatingValues,
     website : {NoField, <<>>, <<" ">>, <<"x">>},
     specialty : {NoField, <<>>, <<" ">>, <<"x">>}]

RECURSIVE lstrip(_)
lstrip(text) ==
    IF text # <<>> /\ Head(text) = " " THEN lstrip(Tail(text)) ELSE text

RECURSIVE rstrip(_)
rstrip(text) ==
    IF text # <<>> /\ text[Len(text)] = " "
    THEN rstrip(SubSeq(text, 1, Len(text) - 1))
    ELSE text

\* str.strip()
strip(text) == rstrip(lstrip(text))

\* the truth value of an Optional[str]: neither None nor the empty string
truthy(field) == field # NoField /\ field # <<>>

filled_fields_unstripped(fields) ==
    Cardinality({i \in DOMAIN fields : truthy(fields[i])})

\* sum(1 for field in fields if field and field.strip())
filled_fields(fields) ==
    Cardinality({i \in DOMAIN fields : truthy(fields[i]) /\ truthy(strip(fields[i]))})

Min(a, b) == IF a <= b THEN a ELSE b

calculate_confidence_score(p) ==
    LET fields == <<p.name, p.address, p.phone, p.email>>
        base   == (filled_fields(fields) * 70 * TenthsPerPoint) \div Len(fields)
        rating_bonus    == IF p.rating # None THEN 10 * TenthsPerPoint ELSE 0
        website_bonus   == IF truthy(p.website) THEN 10 * TenthsPerPoint ELSE 0
        specialty_bonus == IF truthy(p.specialty) THEN 10 * TenthsPerPoint ELSE 0
    IN  Min(base + rating_bonus + website_bonus + specialty_bonus,
            100 * TenthsPerPoint)

\* one call of calculate_confidence_score on the provider record at hand
CalculateConfidenceScore ==
    /\ call.op = "provider"
    /\ call' = [op |-> "calculate_confidence_score", provider |-> call.provider,
                score |-> calculate_confidence_score(call.provider)]
    /\ UNCHANGED <<rl_vars, session_vars, proxy_vars>>

NextScore == CalculateConfidenceScore

\* a provider record as an adapter built it, not yet scored
InitScore ==
    /\ RateInit /\ SessionInit(IdleWorld) /\ ProxyInit
    /\ \E p \in Providers : call = [op |-> "provider", provider |-> p]

SpecScore == InitScore /\ [][NextScore]_vars

\* ---------------------------------------------------------------------------
\* ScrapeRateLimiter.start_scraping / finish_scraping called directly, in any
\* order and for any site; start_scraping itself checks nothing, so the
\* model stops counting at MaxActive.

StartScrapingCall ==
    \E site \in Sites :
        /\ active_scrapes[site] < MaxActive
        /\ active_scrapes' = start_scraping(site)
        /\ call' = [op |-> "start_scraping", site |-> site,
                    before |-> active_scrapes, after |-> start_scraping(site)]
        /\ UNCHANGED <<rl_vars, world, n_requests, last_start, sessions, scraped_data,
                       tasks, status_log, proxy_vars>>

FinishScrapingCall ==
    \E site \in Sites :
        /\ active_scrapes' = finish_scraping(site)
        /\ call' = [op |-> "finish_scraping", site |-> site,
                    before |-> active_scrapes, after |-> finish_scraping(site)]
        /\ UNCHANGED <<rl_vars, world, n_requests, last_start, sessions, scraped_data,
                       tasks, status_log, proxy_vars>>

NextLimiter == StartScrapingCall \/ FinishScrapingCall

InitLimiter == RateInit /\ SessionInit(IdleWorld) /\ ProxyInit /\ call = NoCall

SpecLimiter == InitLimiter /\ [][NextLimiter]_vars

\* ---------------------------------------------------------------------------
\* One iteration of the save loop of run_scraping_session (lines 531-538):
\* provider.to_dict(), the confidence score, save_scraped_data.

\* asdict(self): the dataclass fields by name
to_dict(p) ==
    [name |-> p.name, specialty |-> p.specialty, address |-> p.address,
     phone |-> p.phone, email |-> p.email, website |-> p.website, rating |-> p.rating]

\* dict.get(key) / dict.get(key, default)
get(data, key, default) == IF key \in DOMAIN data THEN data[key] ELSE default

\* the columns of the ScrapedData row that save_scraped_data builds from `data`
ScrapedData(data) ==
    [provider_name |-> get(data, "provider_name", NoField),
     specialty |-> get(data, "specialty", NoField),
     address |-> get(data, "address", NoField),
     phone |-> get(data, "phone", NoField),
     email |-> get(data, "email", NoField),
     website |-> get(data, "website", NoField),
     rating |-> get(data, "rating", None),
     confidence_score |-> get(data, "confidence_score", 0),
     raw_data |-> data]

\* provider_data = provider.to_dict(); provider_data["confidence_score"] = ...
provider_data(p) ==
    [k \in DOMAIN to_dict(p) \cup {"confidence_score"} |->
        IF k = "confidence_score" THEN calculate_confidence_score(p) ELSE to_dict(p)[k]]

SaveProvider ==
    /\ call.op = "returned"
    /\ call' = [op |-> "save_scraped_data", provider |-> call.provider,
                row |-> ScrapedData(provider_data(call.provider))]
    /\ UNCHANGED <<rl_vars, session_vars, proxy_vars>>

NextRecord == SaveProvider

\* a provider an adapter returned: `if provider and provider.name`
InitRecord ==
    /\ RateInit /\ SessionInit(IdleWorld) /\ ProxyInit
    /\ \E p \in Providers :
          /\ truthy(p.name)
          /\ call = [op |-> "returned", provider |-> p]

SpecRecord == InitRecord /\ [][NextRecord]_vars

InitRate == RateInit /\ SessionInit(IdleWorld) /\ ProxyInit /\ call = NoCall

SpecRate == InitRate /\ [][NextRate]_vars

Init == RateInit /\ (\E w \in Worlds : SessionInit(w)) /\ ProxyInit /\ call = NoCall

NextProxy ==
    \/ Initialize
    \/ AddProxy
    \/ RemoveUnhealthyProxies
    \/ CheckAllProxiesHealth
    \/ GetNextProxy
    \/ GetRandomProxy
    \/ GetProxyForRequest
    \/ CollectProbe
    \/ ProxyTick

InitProxy == RateInit /\ (\E w \in ProxyWorlds : SessionInit(w)) /\ ProxyInit /\ call = NoCall

SpecProxy == InitProxy /\ [][NextProxy]_vars

Next ==
    \/ StartScraping
    \/ \E s \in SessionIds : BgStart(s)
    \/ \E s \in SessionIds : OrchStart(s)
    \/ \E s \in SessionIds : Setup(s)
    \/ \E s \in SessionIds : MarkRunning(s)
    \/ \E s \in SessionIds : SearchBegin(s)
    \/ \E s \in SessionIds : SearchPage(s)
    \/ \E s \in SessionIds : SaveOpen(s)
    \/ \E s \in SessionIds : SaveRecord(s)
    \/ \E s \in SessionIds : MarkCompleted(s)
    \/ \E s \in SessionIds : BuildResult(s)
    \/ \E s \in SessionIds : MarkFailed(s)
    \/ \E s \in SessionIds : Cleanup(s)
    \/ \E s \in SessionIds : BgNotify(s)
    \/ \E s \in SessionIds : BgFinally(s)

Spec == Init /\ [][Next]_vars

\* ------------------------------------------------------------------------
\* Claims about the rate limiter (checked under SpecRate)
\* ------------------------------------------------------------------------

\* the allowed checks of identifier id under limit l whose time lies in the
\* rolling window [t0, t0 + l.window_size)
AllowedInWindow(id, l, t0) ==
    {i \in 1..Len(allowed_log[id]) :
        /\ allowed_log[id][i][1] = l
        /\ allowed_log[id][i][2] >= t0
        /\ (allowed_log[id][i][2] - t0) * TickSeconds < l.window_size}

\* C7: for every identifier and every limit (m, w), also when endpoints with
\* different limits share the identifier's queue, the number of checks allowed
\* under (m, w) within any rolling w seconds never exceeds m.
C7_AllowedWithinWindowAtMostLimit ==
    \A id \in Identifiers, l \in Limits, t0 \in 0..MaxTime :
        Cardinality(AllowedInWindow(id, l, t0)) <= l.max_requests

\* C8: an IP that issues more than twice the limit of checks within one window,
\* all under the same limit (250 checks under a limit of 100), is banned.
C8_ExcessiveChecksBan ==
    \A h \in Hosts, l \in Limits :
        ( /\ issued[h].limits = {l}
          /\ issued[h].n > 2 * l.max_requests
          /\ now * TickSeconds < l.window_size )
        => h \in DOMAIN banned_ips

\* C9: while less than ban_duration minutes have passed since an IP was banned,
\* a check for that IP is refused as banned and leaves its queue and its ban
\* record as they were; the first check at or after ban_duration minutes drops
\* that ban record and is decided by the window: allowed (and appended) exactly
\* when the cleaned queue is shorter than max_requests.
C9_BanLastsBanDuration ==
    (last.identifier_type = "ip" /\ last.ban_time # NoBan) =>
        IF (last.time - last.ban_time) * TickSeconds < ban_duration * 60
        THEN /\ last.result = "banned"
             /\ last.queue_after = last.queue_before
             /\ last.ban_after = last.ban_time
        ELSE /\ last.result \in {"allowed", "limited"}
             /\ last.ban_after # last.ban_time
             /\ (last.result = "allowed") <=> (last.checked_len < last.limit.max_requests)
             /\ last.result = "allowed" =>
                    /\ Len(last.queue_after) = last.checked_len + 1
                    /\ last.queue_after[Len(last.queue_after)] = last.time

\* C9 witness: an IP was refused as banned during its ban, and its first check
\* ban_duration minutes after the ban is allowed.
C9_Witness ==
    /\ last.identifier_type = "ip"
    /\ last.ban_time # NoBan
    /\ issued[last.host].banned > 0
    /\ (last.time - last.ban_time) * TickSeconds >= ban_duration * 60
    /\ (last.time - last.ban_time - 1) * TickSeconds < ban_duration * 60
    /\ last.result = "allowed"

Terminal == {"completed", "failed"}

\* C1: once a session's stored status is completed or failed, no later step
\* changes its row (status, counters, error detail).
C1_TerminalRowNeverChanges ==
    [][\A s \in DOMAIN sessions :
          sessions[s].status \in Terminal => sessions'[s] = sessions[s]]_vars

\* C2: a session of a supported site whose setup, store calls and adapter run
\* all succeed ends with stored status completed, and run_scraping_session
\* returns success with the run's pages_scraped and total_records.
C2_CleanRunEndsCompleted ==
    \A s \in SessionIds :
        ( /\ tasks[s].pc = "done"
          /\ tasks[s].target_site \in scrapers
          /\ ~tasks[s].fault
          /\ tasks[s].stats.errors = 0 )
        => /\ sessions[s].status = "completed"
           /\ tasks[s].result = "success"
           /\ sessions[s].pages_scraped = tasks[s].stats.pages_scraped
           /\ sessions[s].total_records = tasks[s].saved_count

\* C3: when the background task of a session has ended, the session's stored
\* status is completed or failed (nothing changes the row afterwards), and a
\* failed session has a non-empty error_log.
C3_EndedTaskLeavesTerminalStatus ==
    \A s \in SessionIds :
        tasks[s].pc = "done" =>
            /\ sessions[s].status \in Terminal
            /\ sessions[s].status = "failed" => sessions[s].error_log \notin {NoText, ""}

AllowedEdges == {<<"pending", "running">>, <<"running", "completed">>,
                 <<"running", "failed">>, <<"pending", "failed">>}

\* C4: the statuses a session's row goes through change only along
\* pending->running, running->completed, running->failed, pending->failed, and
\* pending->failed happens only when setup failed.
C4_OnlyAllowedStatusChanges ==
    \A s \in DOMAIN status_log :
        \A i \in 1..(Len(status_log[s]) - 1) :
            /\ <<status_log[s][i], status_log[s][i + 1]>> \in AllowedEdges
            /\ (status_log[s][i] = "pending" /\ status_log[s][i + 1] = "failed")
                   => tasks[s].setup_failed

\* the sessions admitted for a site whose background task has not ended
Unfinished(site) ==
    {s \in SessionIds : tasks[s].target_site = site /\ tasks[s].pc # "done"}

\* those of them whose stored status is running
Running(site) ==
    {s \in Unfinished(site) : sessions[s].status = "running"}

\* C5: for every site, under every interleaving of start requests and
\* background tasks, the sessions admitted and not yet finished (and so the
\* running ones) number at most max_concurrent_scrapes, and active_scrapes
\* counts exactly them.
C5_AtMostMaxConcurrentScrapes ==
    \A site \in Sites :
        /\ Cardinality(Unfinished(site)) <= max_concurrent_scrapes
        /\ Cardinality(Running(site)) <= max_concurrent_scrapes
        /\ active_scrapes[site] = Cardinality(Unfinished(site))

\* C5 witness: a site is at its cap with three sessions running at once, after
\* an earlier session of the site has finished and freed its slot.
C5_Witness ==
    \E site \in Sites :
        /\ active_scrapes[site] = max_concurrent_scrapes
        /\ Cardinality(Running(site)) = max_concurrent_scrapes
        /\ \E s \in SessionIds : tasks[s].target_site = site /\ tasks[s].pc = "done"

\* C6: a start request that passes the rate limit while its site's active count
\* equals the cap is answered 429 and creates no session row, schedules no
\* background task and leaves active_scrapes as it was.
C6_RequestAtCapRejected ==
    [][( /\ n_requests' = n_requests + 1
         /\ last_start'.detail # "rate limit"
         /\ active_scrapes[last_start'.site] = max_concurrent_scrapes )
       => ( /\ last_start'.status = 429
            /\ sessions' = sessions
            /\ tasks' = tasks
            /\ scraped_data' = scraped_data
            /\ active_scrapes' = active_scrapes )]_vars

\* C6 witness: the fourth request for a site with three active sessions was
\* answered 429 and there are still three sessions and three active scrapes.
C6_Witness ==
    /\ last_start.status = 429
    /\ last_start.detail = "concurrent scrapes"
    /\ last_start.active_before = max_concurrent_scrapes
    /\ last_start.n = max_concurrent_scrapes + 1
    /\ Len(sessions) = max_concurrent_scrapes
    /\ Len(tasks) = max_concurrent_scrapes
    /\ active_scrapes[last_start.site] = max_concurrent_scrapes

\* C11: every admitted session has its site's slot released exactly once, by
\* its background task when it ends, whatever way the task ends; active_scrapes
\* counts the sessions not yet released, and is 0 for every site once all the
\* background tasks have ended.
C11_SlotReleasedExactlyOnce ==
    /\ \A s \in SessionIds :
          tasks[s].released = (IF tasks[s].pc = "done" THEN 1 ELSE 0)
    /\ \A site \in Sites :
          active_scrapes[site] =
              Cardinality({s \in SessionIds : /\ tasks[s].target_site = site
                                              /\ tasks[s].released = 0})
    /\ (\A s \in SessionIds : tasks[s].pc = "done")
          => \A site \in Sites : active_scrapes[site] = 0

\* C11 witness: two sessions of one site have ended, one with a failure result
\* and one with an exception raised out of the orchestrator, and the site's
\* counter is back to 0.
C11_Witness ==
    \E s1, s2 \in SessionIds :
        /\ tasks[s1].target_site = tasks[s2].target_site
        /\ tasks[s1].pc = "done" /\ tasks[s1].result = "failure"
        /\ tasks[s2].pc = "done" /\ tasks[s2].result = "raised"
        /\ \A s \in SessionIds : tasks[s].pc = "done"
        /\ active_scrapes[tasks[s1].target_site] = 0

\* the task has left run_scraping_session after a scraper was constructed
Returned(s) ==
    /\ tasks[s].target_site \in scrapers
    /\ tasks[s].result \in {"success", "failure", "raised"}
    /\ tasks[s].pc \in {"bg_notify", "bg_finally", "done"}

\* C12: on every exit path of run_scraping_session after a scraper was
\* constructed, cleanup has been invoked exactly once when the call returns or
\* raises; it is never invoked twice, and never while the try block is running.
C12_CleanupExactlyOnce ==
    \A s \in SessionIds :
        /\ tasks[s].cleanups <= 1
        /\ Returned(s) => tasks[s].cleanups = 1
        /\ tasks[s].pc \in {"setup", "mark_running", "search", "page", "save_open",
                            "save", "mark_completed", "build_result", "except",
                            "cleanup"} => tasks[s].cleanups = 0

\* C12 witness: the store failed while the failed status was being recorded,
\* the call raised, and cleanup had run once.
C12_Witness ==
    \E s \in SessionIds :
        /\ Returned(s)
        /\ tasks[s].result = "raised"
        /\ tasks[s].cleanups = 1

\* the task has left run_scraping_session (returned or raised)
LeftOrchestrator(s) == tasks[s].pc \in {"bg_notify", "bg_finally", "done"}

C14_CompletedOnlyAfterAllSaved ==
    \A s \in SessionIds :
        LET completed_written ==
                \E i \in 1..Len(status_log[s]) : status_log[s][i] = "completed"
        IN /\ completed_written =>
                /\ tasks[s].saved_count = tasks[s].providers
                /\ scraped_data[s] = tasks[s].providers
           /\ tasks[s].raised_at = "save" => ~completed_written

\* C14 witness: a session whose adapter returned three providers has had status
\* completed written, with three records stored.
C14_Witness ==
    \E s \in SessionIds :
        /\ tasks[s].providers = 3
        /\ scraped_data[s] = 3
        /\ \E i \in 1..Len(status_log[s]) : status_log[s][i] = "completed"

\* C15: right after the update that sets a session's status to completed, the
\* stored total_records equals the number of records stored for the session and
\* the stored pages_scraped equals the adapter's count of scraped pages.
C15_CompletedCountersMatch ==
    \A s \in SessionIds :
        tasks[s].pc = "build_result" =>
            /\ sessions[s].status = "completed"
            /\ sessions[s].total_records = scraped_data[s]
            /\ sessions[s].pages_scraped = tasks[s].stats.pages_scraped

\* C15 witness: status completed has just been written for a session with two
\* scraped pages and three stored records.
C15_Witness ==
    \E s \in SessionIds :
        /\ tasks[s].pc = "build_result"
        /\ sessions[s].status = "completed"
        /\ sessions[s].pages_scraped = 2
        /\ sessions[s].total_records = 3
        /\ scraped_data[s] = 3

\* C16: within a session the pages are processed in increasing page-number
\* order (when page k is about to be processed, pages 1..k-1 have been), and
\* all records extracted from the pages before k are stored before the
\* processing of page k begins.
C16_PagePersistedBeforeNextPage ==
    \A s \in SessionIds :
        tasks[s].pc = "page" =>
            /\ tasks[s].stats.pages_scraped + tasks[s].stats.errors = tasks[s].page_num - 1
            /\ scraped_data[s] = tasks[s].providers

\* C17: within one adapter invocation at most one record per distinct
\* (name, address) pair is emitted, stored and counted: when status completed
\* is written, total_records and the stored records number the distinct pairs
\* (a page with 3 cards of which 2 are distinct gives total_records = 2).
C17_OneRecordPerDistinctPair ==
    \A s \in SessionIds :
        tasks[s].pc = "build_result" =>
            /\ tasks[s].providers = tasks[s].distinct
            /\ scraped_data[s] = tasks[s].distinct
            /\ sessions[s].total_records = tasks[s].distinct

\* C18: whatever the outcome (sent, error result, exception) of the started,
\* completed or error notification, the session's stored state is the one the
\* orchestrator produces (so the orchestrator has run when the task ends), the
\* notifications after the run leave the row as it was, and no notification is
\* sent twice.
C18_NotifierFailureChangesNothing ==
    /\ [](\A s \in SessionIds :
            /\ tasks[s].started_sends <= 1
            /\ tasks[s].final_sends <= 1
            /\ tasks[s].pc = "done" => tasks[s].result # "notifier raised")
    /\ [][\A s \in SessionIds :
            tasks[s].pc \in {"queued", "bg_notify"} => sessions'[s] = sessions[s]]_vars

C20_CountersNeverDecrease ==
    [][\A s \in DOMAIN sessions :
          sessions[s].status # "pending" =>
              /\ sessions'[s].pages_scraped >= sessions[s].pages_scraped
              /\ sessions'[s].total_records >= sessions[s].total_records]_vars

\* C20 witness: a session's row went from running with counters 0 to completed
\* and then failed, holding two pages and three records.
C20_Witness ==
    \E s \in SessionIds :
        /\ status_log[s] = <<"pending", "running", "completed", "failed">>
        /\ sessions[s].pages_scraped = 2
        /\ sessions[s].total_records = 3

\* ------------------------------------------------------------------------
\* Claims about the proxy pool (checked under SpecProxy)
\* ------------------------------------------------------------------------

C22_StaleAcquireDoesNotWait ==
    (last_acquire.kind = "next" /\ last_acquire.stale) =>
        /\ last_acquire.waited = 0
        /\ IF last_acquire.healthy_before = <<>>
           THEN last_acquire.returned = 0
           ELSE \E i \in 1..Len(last_acquire.healthy_before) :
                    last_acquire.healthy_before[i] = last_acquire.returned

Known(list, objects) == {objects[list[i]].server : i \in 1..Len(list)}

\* C24: through any sequence of pool operations the set of known proxies never
\* loses a member.
C24_KnownProxiesNeverRemoved ==
    [][Known(proxies, proxy_objects) \subseteq Known(proxies', proxy_objects')]_vars

\* C25: a health-check pass probes every proxy known when it starts, the
\* unhealthy ones included, in list order, and sets each flag to the result of
\* its probe; the pass is over when the last of them has been collected.
C25_PassProbesEveryKnownProxy ==
    last_pass.pos > 0 =>
        /\ last_pass.tasks = last_pass.known
        /\ last_pass.object = last_pass.known[last_pass.pos]
        /\ last_pass.flag_after = last_pass.result
        /\ last_pass.done <=> (last_pass.pos = Len(last_pass.known))

\* C25 witness: a proxy flagged unhealthy was probed again by a later pass,
\* flagged healthy, and then returned by get_next_proxy.
C25_Witness ==
    /\ last_pass.flag_before = "unhealthy"
    /\ last_pass.flag_after = "healthy"
    /\ last_acquire.kind = "next"
    /\ last_acquire.returned = last_pass.object
    /\ proxy_objects[last_pass.object].is_healthy = "healthy"


\* ---------------------------------------------------------------------------
\* C26: calculate_confidence_score equals min(100, 70 x (number of non-blank
\* fields among name, address, phone, email) / 4 + 10 if the rating is present
\* + 10 if the website is present + 10 if the specialty is present); all seven
\* present gives 100, only a name gives 17.5, and the score, a function of the
\* fields alone, lies in [0, 100].  A text is blank when it is missing or has
\* no character other than spaces; a rating is present when it is not None, a
\* website or specialty when it is a non-empty text.  Scores are in tenths.
NonBlank(field) == field # NoField /\ \E i \in DOMAIN field : field[i] # " "

PresentText(field) == field # NoField /\ Len(field) > 0

ExpectedScore(p) ==
    LET k   == Cardinality({f \in {"name", "address", "phone", "email"} : NonBlank(p[f])})
        sum == (700 * k) \div 4
               + (IF p.rating # None THEN 100 ELSE 0)
               + (IF PresentText(p.website) THEN 100 ELSE 0)
               + (IF PresentText(p.specialty) THEN 100 ELSE 0)
    IN  IF sum > 1000 THEN 1000 ELSE sum

AllSevenPresent(p) ==
    /\ \A f \in {"name", "address", "phone", "email"} : NonBlank(p[f])
    /\ p.rating # None
    /\ PresentText(p.website)
    /\ PresentText(p.specialty)

OnlyNamePresent(p) ==
    /\ NonBlank(p.name)
    /\ \A f \in {"address", "phone", "email"} : ~NonBlank(p[f])
    /\ p.rating = None
    /\ ~PresentText(p.website)
    /\ ~PresentText(p.specialty)

C26_ConfidenceScoreFormula ==
    call.op = "calculate_confidence_score" =>
        /\ call.score = ExpectedScore(call.provider)
        /\ call.score >= 0 /\ call.score <= 1000
        /\ AllSevenPresent(call.provider) => call.score = 1000
        /\ OnlyNamePresent(call.provider) => call.score = 175

\* C26 witness: a record with only a name, its other texts made of spaces or
\* missing, scored 17.5.
C26_Witness ==
    /\ call.op = "calculate_confidence_score"
    /\ OnlyNamePresent(call.provider)
    /\ call.provider.name = <<" ", "x", " ">>
    /\ call.provider.address = <<" ">>
    /\ call.provider.phone = NoField
    /\ call.score = 175


\* ---------------------------------------------------------------------------
\* C27: the queue of the identifier as a check_rate_limit call leaves it holds
\* only timestamps of the call's window, oldest first.
InWindow(queue, time, window_size) ==
    /\ \A i \in DOMAIN queue : (time - queue[i]) * TickSeconds <= window_size
    /\ \A i, j \in DOMAIN queue : i <= j => queue[i] <= queue[j]

\* C27 as stated: on every check_rate_limit call, when the call is decided
\* (allowed or rejected), the identifier's queue contains only timestamps t
\* with now - t <= window_size, in non-decreasing order.
C27_EveryCheckPurges ==
    last.result # "none" =>
        InWindow(last.queue_after, last.time, last.limit.window_size)

\* C27 amended: on every check_rate_limit call that is not refused because of
\* an active IP ban, when the call is decided the identifier's queue contains
\* only timestamps t with now - t <= window_size, in non-decreasing order; a
\* call refused because of an active ban is decided before the purge and
\* leaves the queue as it found it.
C27_DecidedCheckPurges ==
    /\ last.result \in {"allowed", "limited"} =>
           InWindow(last.queue_after, last.time, last.limit.window_size)
    /\ last.result = "banned" => last.queue_after = last.queue_before

\* C27 witness: a check that was not refused for a ban found two or more
\* entries older than its window and purged them.
C27_Witness ==
    /\ last.result \in {"allowed", "limited"}
    /\ Len(last.queue_before) >= 2
    /\ (last.time - last.queue_before[2]) * TickSeconds > last.limit.window_size
    /\ InWindow(last.queue_after, last.time, last.limit.window_size)


\* ---------------------------------------------------------------------------
\* C28: search_providers ends after visiting at most max_pages pages or at
\* the first page without result cards, whichever comes first: inside the
\* page loop every page visited so far was counted once, as scraped or as an
\* error, and the page at hand is within the budget; once the search has
\* returned, pages_scraped <= max_pages and pages_scraped + errors <= max_pages.
SearchReturned(s) ==
    /\ s \in DOMAIN tasks
    /\ tasks[s].pc \notin {"search", "page"}
    /\ (tasks[s].page_num >= 1 \/ tasks[s].stats.errors >= 1)

C28_SearchStopsWithinBudget ==
    \A s \in DOMAIN tasks :
        /\ tasks[s].pc = "page" =>
              /\ tasks[s].page_num >= 1 /\ tasks[s].page_num <= tasks[s].max_pages
              /\ tasks[s].stats.pages_scraped + tasks[s].stats.errors
                     = tasks[s].page_num - 1
        /\ SearchReturned(s) =>
              /\ tasks[s].stats.pages_scraped <= tasks[s].max_pages
              /\ tasks[s].stats.pages_scraped + tasks[s].stats.errors
                     <= tasks[s].max_pages
              /\ tasks[s].page_num <= tasks[s].max_pages

\* C28 witness: a search with a budget of several pages returned after
\* using all of it, one page at least scraped and one at least failed.
C28_Witness ==
    \E s \in DOMAIN tasks :
        /\ SearchReturned(s)
        /\ tasks[s].max_pages >= 2
        /\ tasks[s].stats.pages_scraped >= 1
        /\ tasks[s].stats.errors >= 1
        /\ tasks[s].stats.pages_scraped + tasks[s].stats.errors = tasks[s].max_pages


\* ---------------------------------------------------------------------------
\* C29: a failure while scraping one page adds one to the adapter's error
\* counter and the extraction goes on with the next page; the records of the
\* earlier pages are kept, and a session that collected records and whose
\* only failures were page failures leaves the orchestrator through the
\* completed path: its status is completed, its result a success and its
\* records are stored.
C29_PageFailureStillCompletes ==
    \A s \in DOMAIN tasks :
        ( /\ LeftOrchestrator(s)
          /\ tasks[s].page_num >= 1
          /\ tasks[s].stats.errors >= 1
          /\ tasks[s].providers >= 1
          /\ ~tasks[s].fault )
        => /\ sessions[s].status = "completed"
           /\ tasks[s].result = "success"
           /\ tasks[s].saved_count = tasks[s].providers


\* ---------------------------------------------------------------------------
\* C30: the per-target active counter is never negative under any sequence
\* of start_scraping and finish_scraping calls: finish_scraping on a target
\* whose counter is 0 leaves it at 0, otherwise it takes exactly one from it,
\* and it leaves the counters of the other targets alone.
C30_CounterNeverNegative ==
    /\ \A site \in Sites : active_scrapes[site] >= 0
    /\ call.op = "finish_scraping" =>
          /\ call.after[call.site] = (IF call.before[call.site] = 0 THEN 0
                                      ELSE call.before[call.site] - 1)
          /\ \A other \in Sites \ {call.site} : call.after[other] = call.before[other]
          /\ active_scrapes = call.after

\* C30 witness: finish_scraping was called for a target whose counter was 0,
\* while another target had active sessions, and left every counter as it was.
C30_Witness ==
    /\ call.op = "finish_scraping"
    /\ call.before[call.site] = 0
    /\ call.after[call.site] = 0
    /\ \E other \in Sites \ {call.site} : call.before[other] > 0
    /\ active_scrapes = call.before


\* ---------------------------------------------------------------------------
\* C31: a get_next_proxy call that finds the cursor at or past the end of the
\* healthy list (as after the healthy subset shrank) resets the cursor to
\* zero and returns the first healthy proxy, leaving the cursor on the second
\* position; every call indexes the healthy list within its bounds: the proxy
\* returned is the one at a position 0 .. len - 1, the position being the
\* cursor the call found, or zero.
C31_CursorResetWithinBounds ==
    (last_acquire.kind = "next" /\ last_acquire.returned # 0) =>
        LET healthy == last_acquire.healthy_at
            slot == last_acquire.cursor_after - 1
        IN /\ slot >= 0 /\ slot < Len(healthy)
           /\ last_acquire.returned = healthy[slot + 1]
           /\ slot = (IF last_acquire.cursor >= Len(healthy) THEN 0 ELSE last_acquire.cursor)
           /\ last_acquire.cursor >= 0
           /\ current_index >= 0

\* C31 witness: the healthy list had become shorter than the cursor, and the
\* call returned its first proxy and left the cursor at 1.
C31_Witness ==
    /\ last_acquire.kind = "next"
    /\ last_acquire.returned # 0
    /\ last_acquire.cursor > Len(last_acquire.healthy_at)
    /\ last_acquire.returned = last_acquire.healthy_at[1]
    /\ last_acquire.cursor_after = 1


\* ---------------------------------------------------------------------------
\* C32: an allowed check_rate_limit call appends exactly one timestamp, the
\* current time, to the queue of the calling identifier; a rejected call
\* (limit reached or banned) appends none; neither changes the queue of any
\* other identifier, nor the ban record of any other identifier.
Suffix(queue, n) == SubSeq(queue, Len(queue) - n + 1, Len(queue))

QueueOf(id) == IF id \in Hosts THEN requests[id] ELSE api_requests[id]

C33_SameLimitNeverBanned ==
    \A id \in Identifiers :
        \A l \in Limits :
            ( /\ issued[id].n >= 1
              /\ \A k \in issued[id].limits : k.max_requests = l.max_requests )
            => /\ l.max_requests >= 1
               /\ Len(QueueOf(id)) <= l.max_requests
               /\ id \notin DOMAIN banned_ips
               /\ issued[id].banned = 0

\* C33 witness: an IP made more checks than the limit allows, all under one
\* limit; the last one was rejected with the queue at the limit and no ban.
C33_Witness ==
    /\ last.identifier_type = "ip"
    /\ last.limit = ScrapeLimit
    /\ issued[last.host].limits = {ScrapeLimit}
    /\ issued[last.host].n > ScrapeLimit.max_requests
    /\ last.result = "limited"
    /\ Len(requests[last.host]) = ScrapeLimit.max_requests
    /\ last.host \notin DOMAIN banned_ips


\* ---------------------------------------------------------------------------
\* C34: every record persisted for a session carries the fields the adapter
\* extracted for it; in particular the stored provider_name equals the name
\* of the HealthcareProvider, which is non-empty for every provider an
\* adapter returns.
C34_StoredRecordCarriesFields ==
    call.op = "save_scraped_data" =>
        /\ call.provider.name \notin {NoField, <<>>}
        /\ call.row.provider_name = call.provider.name
        /\ call.row.specialty = call.provider.specialty
        /\ call.row.address = call.provider.address
        /\ call.row.phone = call.provider.phone
        /\ call.row.email = call.provider.email
        /\ call.row.website = call.provider.website
        /\ call.row.rating = call.provider.rating


\* ---------------------------------------------------------------------------
\* C35: whenever a session is finalized as failed, its stored total_records
\* equals the number of records persisted for that session at that moment.
C35_FailedTotalMatchesPersisted ==
    [][ \A s \in DOMAIN sessions' :
          ( /\ sessions'[s].status = "failed"
            /\ s \in DOMAIN sessions => sessions[s] # sessions'[s] )
          => sessions'[s].total_records = scraped_data'[s] ]_vars


\* ---------------------------------------------------------------------------
\* C36: at most one health-check pass is in progress at any time: the
\* get_next_proxy calls of different sessions that all find the health data
\* stale start one check_all_proxies_health run between them.
C36_OnePassForStaleCallers ==
    \A i, j \in DOMAIN health_passes :
        ( /\ health_passes[i].waiter = "next"
          /\ health_passes[j].waiter = "next"
          /\ health_passes[i].started = health_passes[j].started )
        => i = j


\* ---------------------------------------------------------------------------
\* C37: under concurrent first calls to get_proxy_for_request the pool is
\* initialized at most once and the proxy list is never replaced while a
\* health check over it is in progress, so no caller is returned none while
\* a proxy whose latest probe succeeded exists.
C37_NoneOnlyWithoutHealthyProxy ==
    [][ ( /\ last_acquire' # last_acquire
          /\ last_acquire'.kind = "request"
          /\ last_acquire'.returned = 0 )
        => \A o \in DOMAIN proxy_objects' : proxy_objects'[o].is_healthy # "healthy" ]_vars


\* ---------------------------------------------------------------------------
\* C38: get_random_proxy leaves the round-robin cursor, the health flag of
\* every proxy and last_health_check unchanged and starts no health check,
\* whatever the age of the health data.
C38_RandomLeavesRotationAlone ==
    [][ ( /\ last_acquire'.kind = "random"
          /\ n_proxy_ops' = n_proxy_ops + 1
          /\ last_acquire'.n = n_proxy_ops' )
        => /\ current_index' = current_index
           /\ proxy_objects' = proxy_objects
           /\ proxies' = proxies
           /\ last_health_check' = last_health_check
           /\ health_passes' = health_passes ]_vars

\* C38 witness: get_random_proxy was the last operation; it found the health
\* data stale and the cursor advanced by earlier get_next_proxy calls, and
\* returned a proxy with no health check in progress.
C38_Witness ==
    /\ last_acquire.kind = "random"
    /\ last_acquire.n = n_proxy_ops
    /\ last_acquire.stale
    /\ last_acquire.returned # 0
    /\ last_acquire.cursor >= 1
    /\ current_index = last_acquire.cursor
    /\ health_passes = <<>>

====
